---- MODULE Spec2Model ----
(***************************************************************************)
(* A model of the DCF valuation repository: the four numeric core          *)
(* operations of funcLibrary (array_arithmetic, extend_array, apply_growth,*)
(* delta_numpy) as operators over binary floating-point values, and the    *)
(* dcf.py script as a staged state machine.                                *)
(*                                                                         *)
(* Numbers.  The code computes in IEEE-754 binary64.  The model keeps the  *)
(* format's structure (sign, significand, exponent, round-to-nearest-even  *)
(* after every operation, NaN and the two infinities) and reduces the      *)
(* significand from 53 bits to Prec bits; the exponent is not bounded, so  *)
(* overflow and underflow are outside the model.                           *)
(***************************************************************************)
EXTENDS Integers, Sequences, FiniteSets, TLC

\* ------------------------------------------------------------------ bounds

\* Significand width of the modelled floating-point format.
Prec == 4

\* Longest 1-D array handed to a core operation by the harness.
MaxLen == 2

\* Largest forecast horizon handed to extend_array by the harness.
MaxHorizon == 3

\* ------------------------------------------------------- floating point

Abs(i) == IF i < 0 THEN -i ELSE i

Min2(i, j) == IF i <= j THEN i ELSE j

RECURSIVE Pow2(_)
Pow2(k) == IF k <= 0 THEN 1 ELSE 2 * Pow2(k - 1)

NaN == [t |-> "nan", m |-> 0, e |-> 0]

PosInf == [t |-> "inf", m |-> 1, e |-> 0]

NegInf == [t |-> "inf", m |-> -1, e |-> 0]

Zero == [t |-> "fin", m |-> 0, e |-> 0]

IsNaN(x) == x.t = "nan"

IsInf(x) == x.t = "inf"

IsFin(x) == x.t = "fin"

IsZero(x) == x.t = "fin" /\ x.m = 0

Sign(i) == IF i < 0 THEN -1 ELSE 1

\* The canonical form of m * 2^e: an odd significand, or zero.
RECURSIVE Canon(_, _)
Canon(m, e) ==
    IF m = 0 THEN Zero
    ELSE IF m % 2 = 0 THEN Canon(m \div 2, e + 1)
    ELSE [t |-> "fin", m |-> m, e |-> e]

\* floor(log2(a / d)) for integers a > 0, d > 0.
RECURSIVE FloorLog2Q(_, _)
FloorLog2Q(a, d) ==
    IF a >= d
    THEN (IF a < 2 * d THEN 0 ELSE 1 + FloorLog2Q(a, 2 * d))
    ELSE FloorLog2Q(2 * a, d) - 1

\* The integer nearest to (q0 * den + r) / den, ties to even.
RoundHalfEven(q0, r, den) ==
    IF 2 * r > den THEN q0 + 1
    ELSE IF 2 * r = den THEN q0 + (q0 % 2)
    ELSE q0

\* sg * (num / den) * 2^e with the quotient rounded to an integer.
RoundRatio(sg, num, den, e) ==
    Canon(sg * RoundHalfEven(num \div den, num % den, den), e)

\* (n / d) * 2^e with the quotient scaled by 2^-s before it is rounded.
RoundScaled(n, d, e, s) ==
    RoundRatio(Sign(n),
               IF s >= 0 THEN Abs(n) ELSE Abs(n) * Pow2(-s),
               IF s >= 0 THEN d * Pow2(s) ELSE d,
               s + e)

\* (n / d) * 2^e rounded to Prec significant bits, ties to even.
RoundQ(n, d, e) ==
    IF n = 0 THEN Zero
    ELSE RoundScaled(n, d, e, FloorLog2Q(Abs(n), d) - (Prec - 1))

\* The float nearest to the decimal literal n / d.
F(n, d) == RoundQ(n, d, 0)

\* floor(log2 |x|) of a finite nonzero float.
FLog2(x) == x.e + FloorLog2Q(Abs(x.m), 1)

FNeg(x) == [x EXCEPT !.m = -x.m]

\* x + y.  An addend below a quarter of the other's last place cannot change
\* the rounded sum, which keeps the aligned integers small.
FAdd(x, y) ==
    IF IsNaN(x) \/ IsNaN(y) THEN NaN
    ELSE IF IsInf(x) /\ IsInf(y) THEN (IF x.m = y.m THEN x ELSE NaN)
    ELSE IF IsInf(x) THEN x
    ELSE IF IsInf(y) THEN y
    ELSE IF IsZero(x) THEN y
    ELSE IF IsZero(y) THEN x
    ELSE IF FLog2(x) - FLog2(y) >= Prec + 2 THEN x
    ELSE IF FLog2(y) - FLog2(x) >= Prec + 2 THEN y
    ELSE LET e == Min2(x.e, y.e)
         IN  RoundQ(x.m * Pow2(x.e - e) + y.m * Pow2(y.e - e), 1, e)

FSub(x, y) == FAdd(x, FNeg(y))

FMul(x, y) ==
    IF IsNaN(x) \/ IsNaN(y) THEN NaN
    ELSE IF IsInf(x) \/ IsInf(y)
         THEN (IF IsZero(x) \/ IsZero(y) THEN NaN
               ELSE IF Sign(x.m) = Sign(y.m) THEN PosInf ELSE NegInf)
    ELSE RoundQ(x.m * y.m, 1, x.e + y.e)

\* IEEE division, as numpy's true_divide computes it where it is applied:
\* x/0 is an infinity and 0/0 is NaN (with a warning, not an exception).
FDiv(x, y) ==
    IF IsNaN(x) \/ IsNaN(y) THEN NaN
    ELSE IF IsInf(x) THEN (IF IsInf(y) THEN NaN
                           ELSE IF Sign(x.m) = Sign(y.m) THEN PosInf ELSE NegInf)
    ELSE IF IsInf(y) THEN Zero
    ELSE IF IsZero(y) THEN (IF IsZero(x) THEN NaN
                            ELSE IF x.m > 0 THEN PosInf ELSE NegInf)
    ELSE RoundQ(Sign(y.m) * x.m, Abs(y.m), x.e - y.e)

\* x < y; every comparison with NaN is false.
FLt(x, y) ==
    IF IsNaN(x) \/ IsNaN(y) THEN FALSE
    ELSE IF IsInf(x) THEN x.m < 0 /\ y # x
    ELSE IF IsInf(y) THEN y.m > 0
    ELSE IF x.m <= 0 /\ y.m > 0 THEN TRUE
    ELSE IF x.m < 0 /\ y.m = 0 THEN TRUE
    ELSE IF x.m >= 0 /\ y.m <= 0 THEN FALSE
    ELSE IF FLog2(x) # FLog2(y)
         THEN (IF x.m > 0 THEN FLog2(x) < FLog2(y) ELSE FLog2(x) > FLog2(y))
    ELSE LET e == Min2(x.e, y.e)
         IN  x.m * Pow2(x.e - e) < y.m * Pow2(y.e - e)

\* x == y as floats compare: NaN equals nothing, itself included.
FEq(x, y) == ~IsNaN(x) /\ ~IsNaN(y) /\ x = y

FromInt(i) == RoundQ(i, 1, 0)

One == FromInt(1)

\* ----------------------------------------------------------- Python values

PyNone == [ty |-> "NoneType"]

PyStr(s) == [ty |-> "str", s |-> s]

PyInt(i) == [ty |-> "int", i |-> i]

PyFloat(v) == [ty |-> "float", v |-> v]

PyList(d) == [ty |-> "list", data |-> d]

\* A numpy array of floats: its shape and its elements in row-major order.
NdArray(sh, d) == [ty |-> "ndarray", shape |-> sh, data |-> d]

\* A 1-D array.
Arr(d) == NdArray(<<Len(d)>>, d)

\* An exception leaving the call.
Raise(exc) == [ty |-> "raise", exc |-> exc]

IsNone(v) == v.ty = "NoneType"

IsNdArray(v) == v.ty = "ndarray"

IsRaise(v) == v.ty = "raise"

\* ------------------------------------------------------- array_arithmetic

ADD_LIST == {"add", "addition", "sum", "plus", "+"}

SUB_LIST == {"subtract", "sub", "minus", "-"}

MULT_LIST == {"multiply", "times", "*"}

DIV_LIST == {"divide", "div", "/"}

OP_SET == ADD_LIST \cup SUB_LIST \cup MULT_LIST \cup DIV_LIST

\* str.lower() on the operation names the model uses.
Lower(s) ==
    CASE s = "ADD" -> "add"
      [] s = "Plus" -> "plus"
      [] s = "Subtract" -> "subtract"
      [] s = "TIMES" -> "times"
      [] s = "Divide" -> "divide"
      [] s = "DIV" -> "div"
      [] OTHER -> s

\* `not operation or not isinstance(operation, str)`
BadOperation(operation) == operation.ty # "str" \/ operation.s = ""

\* `arr1.ndim != arr2.ndim` in place of the comparison of the shapes.
ShapeMismatch_NdimOnly(arr1, arr2) == Len(arr1.shape) # Len(arr2.shape)

\* `arr1.shape != arr2.shape`
ShapeMismatch(arr1, arr2) == arr1.shape # arr2.shape

\* np.divide without the `where` mask: the plain IEEE quotient.
MaskedDivide_NoMask(x, y) == FDiv(x, y)

\* np.divide(arr1f, arr2f, out=full_like(arr1f, nan), where=(arr2f != 0)):
\* the quotient where the mask holds, the prefilled NaN elsewhere.  NaN != 0
\* holds, so a NaN denominator is divided by.
MaskedDivide(x, y) == IF FEq(y, Zero) THEN NaN ELSE FDiv(x, y)

\* One element of np.add, np.subtract, np.multiply and of the masked
\* np.divide.
Scalar(ufunc, x, y) ==
    CASE ufunc = "add" -> FAdd(x, y)
      [] ufunc = "subtract" -> FSub(x, y)
      [] ufunc = "multiply" -> FMul(x, y)
      [] ufunc = "divide" -> MaskedDivide(x, y)

\* A numpy binary ufunc on two arrays: elementwise on equal shapes; an array
\* of one element is broadcast against the other; any other pair of shapes
\* raises ValueError.
Ufunc(ufunc, arr1, arr2) ==
    IF arr1.shape = arr2.shape \/ Len(arr1.data) = 1 \/ Len(arr2.data) = 1
    THEN LET wide == IF arr1.shape = arr2.shape \/ Len(arr2.data) = 1
                     THEN arr1 ELSE arr2
             thin == IF arr1.shape = arr2.shape \/ Len(arr2.data) = 1
                     THEN arr2 ELSE arr1
         IN  NdArray(IF Len(wide.shape) >= Len(thin.shape) THEN wide.shape
                     ELSE <<1, Len(wide.data)>>,
                     [i \in 1..Len(wide.data) |->
                         Scalar(ufunc,
                                arr1.data[IF Len(arr1.data) = 1 THEN 1 ELSE i],
                                arr2.data[IF Len(arr2.data) = 1 THEN 1 ELSE i])])
    ELSE Raise("ValueError")

\* The numpy function of the branch taken for the lower-cased operation
\* name op, a member of OP_SET.
BranchUfunc(op) ==
    IF op \in ADD_LIST THEN "add"
    ELSE IF op \in SUB_LIST THEN "subtract"
    ELSE IF op \in MULT_LIST THEN "multiply"
    ELSE "divide"

\* The multiply branch calling np.add, as the add branch above it does.
ApplyOperation_MultAdds(op, arr1, arr2) ==
    Ufunc(IF op \in MULT_LIST THEN "add" ELSE BranchUfunc(op), arr1, arr2)

\* The branch taken for the lower-cased operation name op.
ApplyOperation(op, arr1, arr2) == Ufunc(BranchUfunc(op), arr1, arr2)

array_arithmetic(arr1, arr2, operation) ==
    IF BadOperation(operation) THEN PyNone
    ELSE IF IsNone(arr1) \/ IsNone(arr2) THEN PyNone
    ELSE IF ~IsNdArray(arr1) \/ ~IsNdArray(arr2) THEN PyNone
    ELSE IF ShapeMismatch(arr1, arr2) THEN PyNone
    ELSE IF Lower(operation.s) \notin OP_SET THEN PyNone
    ELSE ApplyOperation(Lower(operation.s), arr1, arr2)

\* ----------------------------------------------------------- extend_array

\* np.nanmean: the sum of the non-NaN elements, added left to right (numpy
\* sums fewer than 8 elements in order), over their count; NaN for an empty
\* or all-NaN array (a warning, not an exception).
RECURSIVE NanSum(_)
NanSum(d) ==
    IF Len(d) = 0 THEN Zero
    ELSE LET h == d[Len(d)]
             r == NanSum(SubSeq(d, 1, Len(d) - 1))
         IN  IF IsNaN(h) THEN r ELSE FAdd(r, h)

NanCount(d) == Cardinality({i \in 1..Len(d) : ~IsNaN(d[i])})

NanMean(d) == FDiv(NanSum(d), FromInt(NanCount(d)))

METHODS_SUPPORTED == {"average", "last"}

BaseStep(b, st) == [ty |-> "ok", base_value |-> b, STEP |-> st]

\* A variant whose base is the last historical value whatever the method.
BaseAndStep_LastOnly(arr, forecast_periods, method, STEP, START_VALUE, END_VALUE) ==
    IF ~IsNone(START_VALUE) /\ ~IsNone(END_VALUE)
    THEN IF forecast_periods = 0 THEN Raise("ZeroDivisionError")
         ELSE BaseStep(START_VALUE.v,
                       FDiv(FSub(END_VALUE.v, START_VALUE.v),
                            FromInt(forecast_periods)))
    ELSE IF Len(arr.data) = 0 THEN Raise("IndexError")
    ELSE BaseStep(arr.data[Len(arr.data)], IF IsNone(STEP) THEN Zero ELSE STEP.v)

\* A variant in which a start value given alone replaces the base.
BaseAndStep_StartAlone(arr, forecast_periods, method, STEP, START_VALUE, END_VALUE) ==
    IF ~IsNone(START_VALUE) /\ ~IsNone(END_VALUE)
    THEN IF forecast_periods = 0 THEN Raise("ZeroDivisionError")
         ELSE BaseStep(START_VALUE.v,
                       FDiv(FSub(END_VALUE.v, START_VALUE.v),
                            FromInt(forecast_periods)))
    ELSE IF ~IsNone(START_VALUE)
         THEN BaseStep(START_VALUE.v, IF IsNone(STEP) THEN Zero ELSE STEP.v)
    ELSE IF method = PyStr("average")
         THEN BaseStep(NanMean(arr.data), IF IsNone(STEP) THEN Zero ELSE STEP.v)
    ELSE IF Len(arr.data) = 0 THEN Raise("IndexError")
    ELSE BaseStep(arr.data[Len(arr.data)], IF IsNone(STEP) THEN Zero ELSE STEP.v)

\* Case 1 / Case 2 of extend_array: base_value and STEP, or the exception
\* the expression raises.  START_VALUE, END_VALUE and STEP are Python floats
\* or None, forecast_periods a Python int: float / 0 raises.
BaseAndStep(arr, forecast_periods, method, STEP, START_VALUE, END_VALUE) ==
    IF ~IsNone(START_VALUE) /\ ~IsNone(END_VALUE)
    THEN IF forecast_periods = 0 THEN Raise("ZeroDivisionError")
         ELSE BaseStep(START_VALUE.v,
                       FDiv(FSub(END_VALUE.v, START_VALUE.v),
                            FromInt(forecast_periods)))
    ELSE IF method = PyStr("average")
         THEN BaseStep(NanMean(arr.data), IF IsNone(STEP) THEN Zero ELSE STEP.v)
    ELSE IF Len(arr.data) = 0 THEN Raise("IndexError")
    ELSE BaseStep(arr.data[Len(arr.data)], IF IsNone(STEP) THEN Zero ELSE STEP.v)

\* extension = base_value + steps * STEP, steps = [1.0, ..., forecast_periods]
Extension(base_value, STEP, forecast_periods) ==
    [k \in 1..forecast_periods |-> FAdd(base_value, FMul(FromInt(k), STEP))]

\* np.concatenate([arr, extension]), unless computing the base and the step
\* raised.
Extended(arr, forecast_periods, bs) ==
    IF IsRaise(bs) THEN bs
    ELSE Arr(arr.data \o Extension(bs.base_value, bs.STEP, forecast_periods))

\* A variant without the test of the horizon's sign.
extend_array_AnyHorizon(arr, forecast_periods, method, STEP, START_VALUE, END_VALUE) ==
    IF ~IsNdArray(arr) THEN PyNone
    ELSE IF ~IsNone(method) /\ (method.ty # "str" \/ method.s \notin METHODS_SUPPORTED)
         THEN PyNone
    ELSE IF Len(arr.shape) # 1 THEN PyNone
    ELSE Extended(arr, forecast_periods,
                  BaseAndStep(arr, forecast_periods, method, STEP,
                              START_VALUE, END_VALUE))

extend_array(arr, forecast_periods, method, STEP, START_VALUE, END_VALUE) ==
    IF ~IsNdArray(arr) THEN PyNone
    ELSE IF ~IsNone(method) /\ (method.ty # "str" \/ method.s \notin METHODS_SUPPORTED)
         THEN PyNone
    ELSE IF Len(arr.shape) # 1 THEN PyNone
    ELSE IF forecast_periods < 0 THEN PyNone
    ELSE Extended(arr, forecast_periods,
                  BaseAndStep(arr, forecast_periods, method, STEP,
                              START_VALUE, END_VALUE))

\* ----------------------------------------------------------- apply_growth

\* np.cumprod: the running product, left to right.
RECURSIVE CumProd(_)
CumProd(d) ==
    IF Len(d) = 0 THEN <<>>
    ELSE LET r == CumProd(SubSeq(d, 1, Len(d) - 1))
         IN  IF Len(r) = 0 THEN <<d[1]>>
             ELSE Append(r, FMul(r[Len(r)], d[Len(d)]))

\* A variant that multiplies the growth rates themselves.
Multipliers_RatesOnly(d) == CumProd(d)

\* multipliers = np.cumprod(1 + growth_rates)
Multipliers(d) == CumProd([i \in 1..Len(d) |-> FAdd(One, d[i])])

\* initial_value is a Python int or float (numpy.float64 is a float).
apply_growth(initial_value, growth_rates) ==
    IF initial_value.ty \notin {"int", "float"} THEN PyNone
    ELSE IF ~IsNdArray(growth_rates) THEN PyNone
    ELSE IF Len(growth_rates.data) = 0 THEN PyNone
    ELSE LET v0 == IF initial_value.ty = "int" THEN FromInt(initial_value.i)
                   ELSE initial_value.v
             ms == Multipliers(growth_rates.data)
         IN  Arr(<<v0>> \o [i \in 1..Len(ms) |-> FMul(v0, ms[i])])

\* ------------------------------------------------------------ delta_numpy

\* A variant that puts the anchor value itself at position 0.
FirstDelta_AnchorValue(first_value) ==
    IF IsNone(first_value) THEN NaN ELSE first_value.v

\* delta[0] = nan if first_value is None else 0.0
FirstDelta(first_value) == IF IsNone(first_value) THEN NaN ELSE Zero

delta_numpy(array, first_value) ==
    IF IsNone(array) THEN PyNone
    ELSE IF ~IsNdArray(array) THEN PyNone
    ELSE IF Len(array.shape) # 1 THEN PyNone
    ELSE IF Len(array.data) = 0 THEN PyNone
    \* np.issubdtype(array.dtype, np.number) holds of every array of floats
    ELSE Arr([i \in 1..Len(array.data) |->
                 IF i = 1 THEN FirstDelta(first_value)
                 ELSE FSub(array.data[i], array.data[i - 1])])

\* ------------------------------------------------------ stores into arrays

\* A variant that differences in place: delta is the input array itself.
DeltaBuffer_InPlace == "array"

\* The array delta_numpy assigns delta[0] and delta[1:] into:
\* delta = np.empty_like(array, dtype=float), a new array.
DeltaBuffer == "delta"

\* The array np.divide writes into: out=np.full_like(arr1f, np.nan), a new
\* array (arr1f and arr2f are themselves copies made by astype).
DivideOut == "out"

\* The arrays a call of operation f with arguments a stores into, by the
\* name the code gives them, with their contents when the call returns r.
\* The other statements build new arrays (np.add, np.subtract, np.multiply,
\* np.cumprod, np.concatenate, arithmetic expressions) and store into none.
Stores(f, a, r) ==
    IF f = "delta_numpy" /\ IsNdArray(r) THEN DeltaBuffer :> r.data
    ELSE IF /\ f = "array_arithmetic"
            /\ IsNdArray(r)
            /\ BranchUfunc(Lower(a.operation.s)) = "divide"
         THEN DivideOut :> r.data
    ELSE <<>>

\* The parameters of an operation that hold arrays.
ArrayParams(f) ==
    CASE f = "array_arithmetic" -> {"arr1", "arr2"}
      [] f = "extend_array" -> {"arr"}
      [] f = "apply_growth" -> {"growth_rates"}
      [] f = "delta_numpy" -> {"array"}
      [] OTHER -> {}

\* What the argument passed as parameter name holds when the call returns.
ArgAfter(f, a, r, name) ==
    IF name \in DOMAIN Stores(f, a, r)
    THEN [a[name] EXCEPT !.data = Stores(f, a, r)[name]]
    ELSE a[name]

\* ------------------------------------------------------------------ state

VARIABLES
    fn,           \* the core operation called, "idle" before the call
    args,         \* the arguments of the call
    ret,          \* what the call returned, or the exception it raised
    pc,           \* dcf.py: the step to execute next, "exited" after the end
    last,         \* dcf.py: the step executed last, "none" before the first
    env,          \* dcf.py: the module-level variables assigned so far
    exit_code,    \* dcf.py: the exit status of the process, -1 while it runs
    exc,          \* dcf.py: the exception that ended the run, or "none"
    decisions,    \* dcf.py: the [DECISION] lines logged, as SELL/BUY/HOLD
    quote_calls   \* dcf.py: calls of yahoo_finance_price_fetcher_v2 so far

libvars == <<fn, args, ret>>

runvars == <<pc, last, env, exit_code, exc, decisions, quote_calls>>

vars == <<fn, args, ret, pc, last, env, exit_code, exc, decisions, quote_calls>>

\* ------------------------------------------------------ dcf.py: settings

CURRENT_YEAR == 2025

N_HISTORICAL_YEARS == 5

N_FORECAST_YEARS == 5

HISTORY_START_YEAR == CURRENT_YEAR - N_HISTORICAL_YEARS + 1

HISTORY_END_YEAR == CURRENT_YEAR

TERMINAL_GROWTH_RATE == F(3, 100)

TERMINAL_COGS_MARGIN_RATE == F(60, 100)

TERMINAL_SGA_MARGIN_RATE == F(30, 100)

TERMINAL_RD_MARGIN_RATE == F(10, 100)

TERMINAL_DEPR_TO_CAPEX_RATE == One

WACC == F(1016, 10000)

BUY_SELL_THRESHOLD == F(8, 100)

DATES_VAR == "DATE"

SALES_VAR == "SALES_REV_TURN"

COGS_VAR == "IS_COG_AND_SERVICES_SOLD"

GROSS_PROFIT_VAR == "GROSS_PROFIT"

OTHER_OPER_INC_VAR == "IS_OTHER_OPER_INC"

OPER_EXP_VAR == "IS_OPERATING_EXPN"

SGA_EXP_VAR == "IS_SGA_EXPENSE"

RD_EXP_VAR == "IS_OPERATING_EXPENSES_RD"

OTHER_OPER_EXP_VAR == "IS_OTHER_OPERATING_EXPENSES"

OPER_INC_VAR == "IS_OPER_INC"

PRETAX_INC == "PRETAX_INC"

TAX_EXP_VAR == "IS_INC_TAX_EXP"

EFFECTIVE_TAX_RATE_VAR == "EFF_TAX_RATE"

CAPEX_VAR == "CAPITAL_EXPEND"

CAPEX_TO_SALES_VAR == "CAP_EXPEND_TO_SALES"

EBITDA_VAR == "EBITDA"

EBITA_VAR == "EBITA"

DEPRECIATION_EXPENSE_VAR == "IS_DEPR_EXP"

TOTAL_CURRENT_ASSETS_VAR == "BS_CUR_ASSET_REPORT"

TOTAL_CURRENT_LIABILITIES_VAR == "BS_CUR_LIAB"

SHORT_TERM_DEBT == "BS_ST_BORROW"

SHORT_TERM_PORTION_OF_LONG_TERM_DEBT == "BS_CURR_PORTION_LT_DEBT"

LONG_TERM_DEBT == "BS_LT_BORROW"

PREFERRED_EQUITY == "PFD_EQTY_HYBRID_CAPITAL"

MINORITY_INTEREST == "MINORITY_NONCONTROLLING_INTEREST"

CASH_AND_EQUIVALENTS == "CASH_CASH_EQTY_STI_DETAILED"

N_SHARES_OUTSTANDING == "BS_SH_OUT"

\* ------------------------------------------- dcf.py: numpy, pandas, Python

FAbs(x) == IF x.m < 0 THEN FNeg(x) ELSE x

FLe(x, y) == FLt(x, y) \/ FEq(x, y)

\* Python's x ** n for a float x and an int n > 0: the exact power, rounded
\* once.
RECURSIVE IntPow(_, _)
IntPow(m, n) == IF n = 0 THEN 1 ELSE m * IntPow(m, n - 1)

FPow(x, n) == RoundQ(IntPow(x.m, n), 1, n * x.e)

\* Python's min(a, b) and max(a, b): the first argument unless the second
\* compares strictly below (above) it, so a NaN first argument is returned.
PyMin(a, b) == IF FLt(b, a) THEN b ELSE a

PyMax(a, b) == IF FLt(a, b) THEN b ELSE a

\* One element of numpy.isclose with equal_nan=False: the tolerance test on
\* finite values, plain equality otherwise.
IsClose(x, y, rtol, atol) ==
    IF IsFin(x) /\ IsFin(y)
    THEN FLe(FAbs(FSub(x, y)), FAdd(atol, FMul(rtol, FAbs(y))))
    ELSE FEq(x, y)

\* numpy.allclose(a, b, rtol=1e-5, atol=1e-5) on two arrays of one shape;
\* a None first operand raises TypeError.
AllClose(a, b) ==
    IF IsNone(a) THEN Raise("TypeError")
    ELSE [ty |-> "bool",
          v |-> \A i \in 1..Len(b.data) :
                    IsClose(a.data[i], b.data[i], F(1, 100000), F(1, 100000))]

\* arr / c and c - arr for an array or None and a Python float: elementwise,
\* TypeError on None.
ArrDivScalar(arr, c) ==
    IF IsNone(arr) THEN Raise("TypeError")
    ELSE Arr([i \in 1..Len(arr.data) |-> FDiv(arr.data[i], c)])

ScalarMinusArr(c, arr) == Arr([i \in 1..Len(arr.data) |-> FSub(c, arr.data[i])])

\* arr[-1] of a non-empty array.
LastOf(arr) == arr.data[Len(arr.data)]

\* arr.sum() of the six-element array: added left to right.
RECURSIVE ArrSum(_)
ArrSum(d) ==
    IF d = <<>> THEN Zero
    ELSE FAdd(ArrSum(SubSeq(d, 1, Len(d) - 1)), d[Len(d)])

\* Series.pct_change(periods=1): data / data.shift(1) - 1, nothing to
\* compare the first row with.
PctChange(d) ==
    [i \in 1..Len(d) |->
        IF i = 1 THEN NaN ELSE FSub(FDiv(d[i], d[i - 1]), One)]

\* ----------------------------------------------------------- dfcol2numpy

DataFrame(cols, rows) == [ty |-> "DataFrame", columns |-> cols, rows |-> rows]

IsDataFrame(v) == v.ty = "DataFrame"

\* The cells the model puts in a table are floats, so list2numpy's test of
\* the items' types holds and only the empty list is refused.
list2numpy(list_seq) == IF Len(list_seq) = 0 THEN PyNone ELSE Arr(list_seq)

\* A variant that fills a column the table lacks with zeros.
dfcol2numpy_ZeroFill(varname, df) ==
    IF IsNone(df) THEN PyNone
    ELSE IF ~IsDataFrame(df) THEN PyNone
    ELSE IF varname = "" THEN PyNone
    ELSE IF Len(df.rows) = 0 THEN PyNone
    ELSE IF varname \notin df.columns THEN Arr([i \in 1..Len(df.rows) |-> Zero])
    ELSE list2numpy([i \in 1..Len(df.rows) |-> df.rows[i][varname]])

dfcol2numpy(varname, df) ==
    IF IsNone(df) THEN PyNone
    ELSE IF ~IsDataFrame(df) THEN PyNone
    ELSE IF varname = "" THEN PyNone
    ELSE IF Len(df.rows) = 0 THEN PyNone
    ELSE IF varname \notin df.columns THEN PyNone
    ELSE list2numpy([i \in 1..Len(df.rows) |-> df.rows[i][varname]])

\* ------------------------------------------------ dcf.py: the input table

\* The lines a consistency check of STEP 4 compares with a reconstruction.
CHECKED_VARS ==
    {GROSS_PROFIT_VAR, OPER_EXP_VAR, OPER_INC_VAR, EFFECTIVE_TAX_RATE_VAR,
     DEPRECIATION_EXPENSE_VAR}

\* The figure a company reports for a line: far off the figure when the
\* company misreports the line.
Reported(company, var, v) == IF var \in company THEN FAdd(v, FromInt(64)) ELSE v

\* The statement lines of one fiscal year of a company.  A company is the
\* set of lines its statements get wrong: none for a company whose lines
\* agree with each other; a checked line is reported off its reconstruction;
\* a company with cash in the set has no figure for it, which a CSV export
\* leaves empty and pandas reads as NaN.  The figures are binary fractions,
\* so that the lines of a consistent company reconcile without rounding.
Statement(company, year) ==
    LET s     == FromInt(2 * (year - 2020) + 6)
        cogs  == FDiv(s, FromInt(2))
        gp    == Reported(company, GROSS_PROFIT_VAR, FSub(s, cogs))
        sga   == FDiv(s, FromInt(8))
        rd    == FDiv(s, FromInt(8))
        opexp == Reported(company, OPER_EXP_VAR, FAdd(FAdd(sga, rd), Zero))
        opinc == FAdd(FSub(s, cogs), FSub(Zero, FAdd(FAdd(sga, rd), Zero)))
        depr  == FDiv(s, FromInt(2))
        ebita == FAdd(opinc, FDiv(s, FromInt(4)))
    IN  [DATE |-> year,
         SALES_REV_TURN |-> s,
         IS_COG_AND_SERVICES_SOLD |-> cogs,
         GROSS_PROFIT |-> gp,
         IS_OTHER_OPER_INC |-> Zero,
         IS_OPERATING_EXPN |-> opexp,
         IS_SGA_EXPENSE |-> sga,
         IS_OPERATING_EXPENSES_RD |-> rd,
         IS_OTHER_OPERATING_EXPENSES |-> Zero,
         IS_OPER_INC |-> Reported(company, OPER_INC_VAR,
                                  FAdd(gp, FSub(Zero, opexp))),
         PRETAX_INC |-> opinc,
         IS_INC_TAX_EXP |-> FDiv(opinc, FromInt(4)),
         EFF_TAX_RATE |-> Reported(company, EFFECTIVE_TAX_RATE_VAR, FromInt(25)),
         CAPITAL_EXPEND |->
             IF CAPEX_TO_SALES_VAR \in company THEN Zero ELSE FDiv(s, FromInt(8)),
         CAP_EXPEND_TO_SALES |->
             IF CAPEX_TO_SALES_VAR \in company THEN Zero ELSE F(25, 2),
         EBITDA |-> FAdd(ebita, depr),
         EBITA |-> ebita,
         IS_DEPR_EXP |-> Reported(company, DEPRECIATION_EXPENSE_VAR, depr),
         BS_CUR_ASSET_REPORT |-> s,
         BS_CUR_LIAB |-> cogs,
         BS_ST_BORROW |-> One,
         BS_CURR_PORTION_LT_DEBT |-> F(1, 2),
         BS_LT_BORROW |-> FromInt(2),
         PFD_EQTY_HYBRID_CAPITAL |-> Zero,
         MINORITY_NONCONTROLLING_INTEREST |-> F(1, 2),
         CASH_CASH_EQTY_STI_DETAILED |->
             IF CASH_AND_EQUIVALENTS \in company THEN NaN ELSE FromInt(2),
         BS_SH_OUT |-> FromInt(4)]

\* Every column the script names.
ALL_VARS == DOMAIN Statement({}, CURRENT_YEAR)

Restrict(row, cols) == [c \in cols |-> row[c]]

\* A table of the company's statements for the given years, in the given
\* order, without the columns in missing.  Year 0 stands for a DATE cell that
\* does not parse as %m/%d/%Y.
Sheet(company, years, missing) ==
    DataFrame(ALL_VARS \ missing,
              [i \in 1..Len(years) |->
                  Restrict(Statement(company, years[i]), ALL_VARS \ missing)])

\* The companies valued over every row set: one with consistent statements,
\* one that misreports gross profit, one without a cash figure, one without
\* capital expenditure.
Companies ==
    {{}, {GROSS_PROFIT_VAR}, {CASH_AND_EQUIVALENTS}, {CAPEX_TO_SALES_VAR}}

\* The rows of a table: the historical window exactly, in both orders, more
\* years than the window, fewer, none inside it, an unparseable date, and one
\* year twice.
YearLists ==
    {<<2021, 2022, 2023, 2024, 2025>>,
     <<2025, 2024, 2023, 2022, 2021>>,
     <<2019, 2020, 2021, 2022, 2023, 2024, 2025>>,
     <<2022, 2023, 2024, 2025>>,
     <<2010, 2011>>,
     <<2021, 2022, 0, 2023, 2024, 2025>>,
     <<2021, 2022, 2023, 2024, 2025, 2025>>}

\* What import_csv can hand to the script: tables of each company and each
\* row set with every column, tables with one column absent, and tables of
\* the companies that misreport any of the checked lines.
Tables ==
    {Sheet(c, ys, {}) : c \in Companies, ys \in YearLists}
        \cup {Sheet({}, <<2021, 2022, 2023, 2024, 2025>>, {v}) : v \in ALL_VARS}
        \cup {Sheet(c, <<2021, 2022, 2023, 2024, 2025>>, {}) : c \in SUBSET CHECKED_VARS}

\* What the quote source can return: a positive price, NaN, or None when
\* the lookup has no last price.  The prices lie on both sides of the share
\* value of the base company and on the two thresholds around it.
Prices ==
    {PyFloat(FromInt(4 * p)) : p \in 6..10} \cup {PyFloat(NaN), PyNone}

\* ------------------------------------------------------- dcf.py: outcomes

\* A step that ran to its end, with the variables it assigned.
Ok(new) == [st |-> "ok", new |-> new, exc |-> "none"]

\* sys.exit() without an argument: SystemExit(None), exit status 0.
SysExit == [st |-> "exit", new |-> <<>>, exc |-> "SystemExit"]

\* An exception nothing catches: traceback, exit status 1.
Uncaught(e) == [st |-> "raise", new |-> <<>>, exc |-> e]

ExitStatus(r) == IF r.st = "raise" THEN 1 ELSE 0

Finish(step, r, next) ==
    /\ last' = step
    /\ env' = r.new @@ env
    /\ pc' = IF r.st = "ok" THEN next ELSE "exited"
    /\ exit_code' = IF r.st = "ok" THEN -1 ELSE ExitStatus(r)
    /\ exc' = r.exc

\* ------------------------------------------------------ dcf.py: the steps

RunInit ==
    /\ pc = "import"
    /\ last = "none"
    /\ env = <<>>
    /\ exit_code = -1
    /\ exc = "none"
    /\ decisions = <<>>
    /\ quote_calls = 0

\* STEP 1.  import_csv returns the table, returns None (the sheet is empty),
\* or pandas.read_csv raises (the sheet cannot be fetched or parsed).
Step1_Import ==
    /\ pc = "import"
    /\ \E dcf_df \in Tables \cup {PyNone, Raise("URLError")} :
          Finish("import",
                 IF IsRaise(dcf_df) THEN Uncaught(dcf_df.exc)
                 ELSE IF IsNone(dcf_df) THEN SysExit
                 ELSE Ok([dcf_df |-> dcf_df]),
                 "window")
    /\ UNCHANGED <<decisions, quote_calls, fn, args, ret>>

\* Rows ordered by year, rows without a year last (sort_values).
RECURSIVE SortByYear(_)
SortByYear(rows) ==
    IF rows = <<>> THEN <<>>
    ELSE LET key(i) == IF rows[i].year = 0 THEN 9999 ELSE rows[i].year
             k == CHOOSE i \in 1..Len(rows) :
                      \A j \in 1..Len(rows) :
                          key(i) < key(j) \/ (key(i) = key(j) /\ i <= j)
         IN  <<rows[k]>> \o SortByYear(SubSeq(rows, 1, k - 1)
                                          \o SubSeq(rows, k + 1, Len(rows)))

\* The rows inside the historical window, in order.
RECURSIVE Actuals(_)
Actuals(rows) ==
    IF rows = <<>> THEN <<>>
    ELSE (IF rows[1].year >= HISTORY_START_YEAR /\ rows[1].year <= HISTORY_END_YEAR
          THEN <<rows[1]>> ELSE <<>>) \o Actuals(Tail(rows))

\* STEP 2.  Dates to years, sort, window, sales growth column.
Step2(e) ==
    IF DATES_VAR \notin e.dcf_df.columns THEN SysExit
    ELSE LET cols   == (e.dcf_df.columns \ {DATES_VAR}) \cup {"formatted_date", "year"}
             dated  == [i \in 1..Len(e.dcf_df.rows) |->
                           LET r == e.dcf_df.rows[i]
                           IN  [c \in cols |->
                                   IF c \in {"formatted_date", "year"}
                                   THEN r[DATES_VAR] ELSE r[c]]]
             sorted == SortByYear(dated)
             act    == Actuals(sorted)
         IN  IF SALES_VAR \notin cols THEN Uncaught("KeyError")
             ELSE LET growth == PctChange([i \in 1..Len(act) |-> act[i][SALES_VAR]])
                  IN  Ok([dcf_df |-> DataFrame(cols, sorted),
                          dcf_actuals |->
                              DataFrame(cols \cup {"sales_growth"},
                                        [i \in 1..Len(act) |->
                                            [c \in cols \cup {"sales_growth"} |->
                                                IF c = "sales_growth" THEN growth[i]
                                                ELSE act[i][c]]])])

Step2_Window ==
    /\ pc = "window"
    /\ Finish("window", Step2(env), "extract")
    /\ UNCHANGED <<decisions, quote_calls, fn, args, ret>>

Sub == PyStr("subtract")

Add == PyStr("add")

Mul == PyStr("multiply")

Div == PyStr("divide")

\* STEP 3.  Columns to arrays.  Only the sales array is tested for None; the
\* tax rate is divided by 100 as it is read.
Step3(e) ==
    LET df == e.dcf_actuals
        sales_arr == dfcol2numpy(SALES_VAR, df)
        effective_tax_rate_arr ==
            ArrDivScalar(dfcol2numpy(EFFECTIVE_TAX_RATE_VAR, df), FromInt(100))
        ebita_arr == dfcol2numpy(EBITA_VAR, df)
        oper_inc_arr == dfcol2numpy(OPER_INC_VAR, df)
        total_current_assets_arr == dfcol2numpy(TOTAL_CURRENT_ASSETS_VAR, df)
        total_current_liabilities_arr == dfcol2numpy(TOTAL_CURRENT_LIABILITIES_VAR, df)
        st_debt_arr == dfcol2numpy(SHORT_TERM_DEBT, df)
        stlt_debt_arr == dfcol2numpy(SHORT_TERM_PORTION_OF_LONG_TERM_DEBT, df)
        lt_debt_arr == dfcol2numpy(LONG_TERM_DEBT, df)
    IN  IF IsNone(sales_arr) THEN SysExit
        ELSE IF IsRaise(effective_tax_rate_arr)
             THEN Uncaught(effective_tax_rate_arr.exc)
        ELSE Ok([sales_arr |-> sales_arr,
                 sales_growth_arr |-> dfcol2numpy("sales_growth", df),
                 cogs_arr |-> dfcol2numpy(COGS_VAR, df),
                 gp_arr |-> dfcol2numpy(GROSS_PROFIT_VAR, df),
                 other_oper_inc_arr |-> dfcol2numpy(OTHER_OPER_INC_VAR, df),
                 other_oper_exp_arr |-> dfcol2numpy(OTHER_OPER_EXP_VAR, df),
                 sga_exp_arr |-> dfcol2numpy(SGA_EXP_VAR, df),
                 rd_exp_arr |-> dfcol2numpy(RD_EXP_VAR, df),
                 oper_exp_arr |-> dfcol2numpy(OPER_EXP_VAR, df),
                 oper_inc_arr |-> oper_inc_arr,
                 pretax_inc_arr |-> dfcol2numpy(PRETAX_INC, df),
                 tax_exp_arr |-> dfcol2numpy(TAX_EXP_VAR, df),
                 effective_tax_rate_arr |-> effective_tax_rate_arr,
                 capital_expenditure_arr |-> dfcol2numpy(CAPEX_VAR, df),
                 ebitda_arr |-> dfcol2numpy(EBITDA_VAR, df),
                 ebita_arr |-> ebita_arr,
                 depreciation_arr |-> dfcol2numpy(DEPRECIATION_EXPENSE_VAR, df),
                 amortization_arr |-> array_arithmetic(ebita_arr, oper_inc_arr, Sub),
                 total_current_assets_arr |-> total_current_assets_arr,
                 total_current_liabilities_arr |-> total_current_liabilities_arr,
                 working_capital_arr |->
                     array_arithmetic(total_current_assets_arr,
                                      total_current_liabilities_arr, Sub),
                 st_debt_arr |-> st_debt_arr,
                 stlt_debt_arr |-> stlt_debt_arr,
                 lt_debt_arr |-> lt_debt_arr,
                 total_debt_arr |->
                     array_arithmetic(st_debt_arr,
                                      array_arithmetic(stlt_debt_arr, lt_debt_arr, Add),
                                      Add),
                 preferred_equity_arr |-> dfcol2numpy(PREFERRED_EQUITY, df),
                 minority_interest_arr |-> dfcol2numpy(MINORITY_INTEREST, df),
                 cash_and_equivalents_arr |-> dfcol2numpy(CASH_AND_EQUIVALENTS, df),
                 shares_out_arr |-> dfcol2numpy(N_SHARES_OUTSTANDING, df)])

Step3_Extract ==
    /\ pc = "extract"
    /\ Finish("extract", Step3(env), "check")
    /\ UNCHANGED <<decisions, quote_calls, fn, args, ret>>

\* A variant that stops the run when a check fails.
LogCheck_HaltOnFail(check) ==
    IF IsRaise(check) THEN Uncaught("TypeError")
    ELSE IF ~check.v THEN SysExit
    ELSE Ok(<<>>)

\* One check and the line that logs its result: np.allclose raises on a
\* reported series that is None; a boolean, True or False, is only logged.
LogCheck(check) ==
    IF IsRaise(check) THEN Uncaught("TypeError")
    ELSE Ok(<<>>)

\* STEP 4.  The five consistency checks.  A reconstruction that is None ends
\* the run; the comparison itself only records a boolean, and raises when
\* the reported series is None.
Step4(e) ==
    LET calculated_gross_profit_arr == array_arithmetic(e.sales_arr, e.cogs_arr, Sub)
        check_gross_margin_arr == AllClose(e.gp_arr, calculated_gross_profit_arr)
        calculated_oper_exp_arr ==
            array_arithmetic(array_arithmetic(e.sga_exp_arr, e.rd_exp_arr, Add),
                             e.other_oper_exp_arr, Add)
        check_oper_exp_arr == AllClose(e.oper_exp_arr, calculated_oper_exp_arr)
        calculated_oper_inc_arr ==
            array_arithmetic(e.gp_arr,
                             array_arithmetic(e.other_oper_inc_arr, e.oper_exp_arr, Sub),
                             Add)
        check_oper_inc_arr == AllClose(e.oper_inc_arr, calculated_oper_inc_arr)
        calculated_effective_tax_rate_arr ==
            array_arithmetic(e.tax_exp_arr, e.pretax_inc_arr, Div)
        check_effective_tax_rate_arr ==
            AllClose(e.effective_tax_rate_arr, calculated_effective_tax_rate_arr)
        calculated_depreciation_arr == array_arithmetic(e.ebitda_arr, e.ebita_arr, Sub)
        check_depreciation_arr == AllClose(e.depreciation_arr, calculated_depreciation_arr)
    IN  IF IsNone(calculated_gross_profit_arr) THEN SysExit
        ELSE IF LogCheck(check_gross_margin_arr).st # "ok" THEN LogCheck(check_gross_margin_arr)
        ELSE IF IsNone(calculated_oper_exp_arr) THEN SysExit
        ELSE IF LogCheck(check_oper_exp_arr).st # "ok" THEN LogCheck(check_oper_exp_arr)
        ELSE IF IsNone(calculated_oper_inc_arr) THEN SysExit
        ELSE IF LogCheck(check_oper_inc_arr).st # "ok" THEN LogCheck(check_oper_inc_arr)
        ELSE IF IsNone(calculated_effective_tax_rate_arr) THEN SysExit
        ELSE IF LogCheck(check_effective_tax_rate_arr).st # "ok" THEN LogCheck(check_effective_tax_rate_arr)
        ELSE IF IsNone(calculated_depreciation_arr) THEN SysExit
        ELSE IF LogCheck(check_depreciation_arr).st # "ok" THEN LogCheck(check_depreciation_arr)
        ELSE Ok([calculated_gross_profit_arr |-> calculated_gross_profit_arr,
                 check_gross_margin_arr |-> check_gross_margin_arr,
                 calculated_oper_exp_arr |-> calculated_oper_exp_arr,
                 check_oper_exp_arr |-> check_oper_exp_arr,
                 calculated_oper_inc_arr |-> calculated_oper_inc_arr,
                 check_oper_inc_arr |-> check_oper_inc_arr,
                 calculated_effective_tax_rate_arr |-> calculated_effective_tax_rate_arr,
                 check_effective_tax_rate_arr |-> check_effective_tax_rate_arr,
                 calculated_depreciation_arr |-> calculated_depreciation_arr,
                 check_depreciation_arr |-> check_depreciation_arr])

Step4_Check ==
    /\ pc = "check"
    /\ Finish("check", Step4(env), "margins")
    /\ UNCHANGED <<decisions, quote_calls, fn, args, ret>>

\* STEP 5.  Margins: each series over sales, each tested for None as it is
\* computed; the capex-to-sales column is divided by 100 as it is read.
Step5(e) ==
    LET df == e.dcf_actuals
        cogs_margin_arr == array_arithmetic(e.cogs_arr, e.sales_arr, Div)
        other_oper_inc_margin_arr == array_arithmetic(e.other_oper_inc_arr, e.sales_arr, Div)
        other_oper_exp_margin_arr == array_arithmetic(e.other_oper_exp_arr, e.sales_arr, Div)
        sga_margin_arr == array_arithmetic(e.sga_exp_arr, e.sales_arr, Div)
        rd_margin_arr == array_arithmetic(e.rd_exp_arr, e.sales_arr, Div)
        capex_margin_arr ==
            ArrDivScalar(dfcol2numpy(CAPEX_TO_SALES_VAR, df), FromInt(100))
        depr_capex_arr ==
            array_arithmetic(e.depreciation_arr,
                             array_arithmetic(capex_margin_arr, e.sales_arr, Mul),
                             Div)
        amortization_margin_arr == array_arithmetic(e.amortization_arr, e.sales_arr, Div)
        working_capital_margin_arr ==
            array_arithmetic(e.working_capital_arr, e.sales_arr, Div)
    IN  IF IsNone(cogs_margin_arr) THEN SysExit
        ELSE IF IsNone(other_oper_inc_margin_arr) THEN SysExit
        ELSE IF IsNone(other_oper_exp_margin_arr) THEN SysExit
        ELSE IF IsNone(sga_margin_arr) THEN SysExit
        ELSE IF IsNone(rd_margin_arr) THEN SysExit
        ELSE IF IsRaise(capex_margin_arr) THEN Uncaught(capex_margin_arr.exc)
        ELSE IF IsNone(depr_capex_arr) THEN SysExit
        ELSE IF IsNone(amortization_margin_arr) THEN SysExit
        ELSE IF IsNone(working_capital_margin_arr) THEN SysExit
        ELSE Ok([cogs_margin_arr |-> cogs_margin_arr,
                 other_oper_inc_margin_arr |-> other_oper_inc_margin_arr,
                 other_oper_exp_margin_arr |-> other_oper_exp_margin_arr,
                 sga_margin_arr |-> sga_margin_arr,
                 rd_margin_arr |-> rd_margin_arr,
                 capex_margin_arr |-> capex_margin_arr,
                 depr_capex_arr |-> depr_capex_arr,
                 amortization_margin_arr |-> amortization_margin_arr,
                 working_capital_margin_arr |-> working_capital_margin_arr])

Step5_Margins ==
    /\ pc = "margins"
    /\ Finish("margins", Step5(env), "projections")
    /\ UNCHANGED <<decisions, quote_calls, fn, args, ret>>

\* Every projection of STEP 6 is the same call: no method, no STEP, a start
\* and an end value.
Project(arr, START_VALUE, END_VALUE) ==
    extend_array(arr, N_FORECAST_YEARS, PyNone, PyNone,
                 PyFloat(START_VALUE), PyFloat(END_VALUE))

\* A variant that projects the reported tax rate.
TaxRateProjected_Reported(e) == e.effective_tax_rate_arr

\* The tax rate series STEP 6 extends: the one recomputed in STEP 4 as tax
\* expense over pretax income.
TaxRateProjected(e) == e.calculated_effective_tax_rate_arr

\* STEP 6.  Eleven projections, each tested for None as it is computed.
Step6(e) ==
    LET sales_growth_arr_extended ==
            Project(e.sales_growth_arr, NanMean(e.sales_growth_arr.data),
                    TERMINAL_GROWTH_RATE)
        cogs_margin_arr_extended ==
            Project(e.cogs_margin_arr, NanMean(e.cogs_margin_arr.data),
                    PyMin(NanMean(e.cogs_margin_arr.data), TERMINAL_COGS_MARGIN_RATE))
        other_oper_inc_margin_arr_extended ==
            Project(e.other_oper_inc_margin_arr, LastOf(e.other_oper_inc_margin_arr), Zero)
        sga_margin_arr_extended ==
            Project(e.sga_margin_arr, LastOf(e.sga_margin_arr),
                    PyMin(NanMean(e.sga_margin_arr.data), TERMINAL_SGA_MARGIN_RATE))
        rd_margin_arr_extended ==
            Project(e.rd_margin_arr, LastOf(e.rd_margin_arr),
                    PyMax(NanMean(e.rd_margin_arr.data), TERMINAL_RD_MARGIN_RATE))
        other_oper_exp_margin_arr_extended ==
            Project(e.other_oper_exp_margin_arr, LastOf(e.other_oper_exp_margin_arr), Zero)
        effective_tax_rate_arr_extended ==
            Project(TaxRateProjected(e), LastOf(TaxRateProjected(e)),
                    LastOf(TaxRateProjected(e)))
        capex_margin_arr_extended ==
            Project(e.capex_margin_arr, NanMean(e.capex_margin_arr.data),
                    NanMean(e.capex_margin_arr.data))
        depr_capex_arr_extended ==
            Project(e.depr_capex_arr, LastOf(e.depr_capex_arr),
                    TERMINAL_DEPR_TO_CAPEX_RATE)
        amortization_margin_arr_extended ==
            Project(e.amortization_margin_arr, NanMean(e.amortization_margin_arr.data),
                    NanMean(e.amortization_margin_arr.data))
        working_capital_margin_arr_extended ==
            Project(e.working_capital_margin_arr,
                    NanMean(e.working_capital_margin_arr.data),
                    NanMean(e.working_capital_margin_arr.data))
        new == [sales_growth_arr_extended |-> sales_growth_arr_extended,
                cogs_margin_arr_extended |-> cogs_margin_arr_extended,
                other_oper_inc_margin_arr_extended |-> other_oper_inc_margin_arr_extended,
                sga_margin_arr_extended |-> sga_margin_arr_extended,
                rd_margin_arr_extended |-> rd_margin_arr_extended,
                other_oper_exp_margin_arr_extended |-> other_oper_exp_margin_arr_extended,
                effective_tax_rate_arr_extended |-> effective_tax_rate_arr_extended,
                capex_margin_arr_extended |-> capex_margin_arr_extended,
                depr_capex_arr_extended |-> depr_capex_arr_extended,
                amortization_margin_arr_extended |-> amortization_margin_arr_extended,
                working_capital_margin_arr_extended |-> working_capital_margin_arr_extended]
    IN  IF \E v \in DOMAIN new : IsNone(new[v]) THEN SysExit
        ELSE IF \E v \in DOMAIN new : IsRaise(new[v]) THEN Uncaught("ZeroDivisionError")
        ELSE Ok(new)

Step6_Projections ==
    /\ pc = "projections"
    /\ Finish("projections", Step6(env), "forecast")
    /\ UNCHANGED <<decisions, quote_calls, fn, args, ret>>

\* STEP 7.  Forecast levels: sales compounded from the first historical
\* value, every other line as sales times its margin, the change in working
\* capital by differencing.  Each array is tested for None as it is computed.
Step7(e) ==
    LET sales_forecast_arr ==
            apply_growth(PyFloat(e.sales_arr.data[1]),
                         Arr(Tail(e.sales_growth_arr_extended.data)))
        cogs_forecast_arr ==
            array_arithmetic(sales_forecast_arr, e.cogs_margin_arr_extended, Mul)
        gross_profit_forecast_arr ==
            array_arithmetic(sales_forecast_arr, cogs_forecast_arr, Sub)
        other_oper_inc_forecast_arr ==
            array_arithmetic(sales_forecast_arr, e.other_oper_inc_margin_arr_extended, Mul)
        sga_forecast_arr ==
            array_arithmetic(sales_forecast_arr, e.sga_margin_arr_extended, Mul)
        rd_forecast_arr ==
            array_arithmetic(sales_forecast_arr, e.rd_margin_arr_extended, Mul)
        other_oper_exp_forecast_arr ==
            array_arithmetic(sales_forecast_arr, e.other_oper_exp_margin_arr_extended, Mul)
        oper_exp_forecast_arr ==
            array_arithmetic(array_arithmetic(sga_forecast_arr, rd_forecast_arr, Add),
                             other_oper_exp_forecast_arr, Add)
        ebit_forecast_arr ==
            array_arithmetic(gross_profit_forecast_arr,
                             array_arithmetic(other_oper_inc_forecast_arr,
                                              oper_exp_forecast_arr, Sub),
                             Add)
        nopat_forecast_arr ==
            array_arithmetic(ebit_forecast_arr,
                             ScalarMinusArr(One, e.effective_tax_rate_arr_extended),
                             Mul)
        capex_forecast_arr ==
            array_arithmetic(sales_forecast_arr, e.capex_margin_arr_extended, Mul)
        depreciation_forecast_arr ==
            array_arithmetic(capex_forecast_arr, e.depr_capex_arr_extended, Mul)
        amortization_forecast_arr ==
            array_arithmetic(sales_forecast_arr, e.amortization_margin_arr_extended, Mul)
        working_capital_forecast_arr ==
            array_arithmetic(sales_forecast_arr, e.working_capital_margin_arr_extended, Mul)
        change_in_working_capital_forecast_arr ==
            delta_numpy(working_capital_forecast_arr, PyFloat(Zero))
        new == [sales_forecast_arr |-> sales_forecast_arr,
                cogs_forecast_arr |-> cogs_forecast_arr,
                gross_profit_forecast_arr |-> gross_profit_forecast_arr,
                other_oper_inc_forecast_arr |-> other_oper_inc_forecast_arr,
                sga_forecast_arr |-> sga_forecast_arr,
                rd_forecast_arr |-> rd_forecast_arr,
                other_oper_exp_forecast_arr |-> other_oper_exp_forecast_arr,
                oper_exp_forecast_arr |-> oper_exp_forecast_arr,
                ebit_forecast_arr |-> ebit_forecast_arr,
                nopat_forecast_arr |-> nopat_forecast_arr,
                capex_forecast_arr |-> capex_forecast_arr,
                depreciation_forecast_arr |-> depreciation_forecast_arr,
                amortization_forecast_arr |-> amortization_forecast_arr,
                working_capital_forecast_arr |-> working_capital_forecast_arr,
                change_in_working_capital_forecast_arr |->
                    change_in_working_capital_forecast_arr]
    IN  IF \E v \in DOMAIN new : IsNone(new[v]) THEN SysExit ELSE Ok(new)

Step7_Forecast ==
    /\ pc = "forecast"
    /\ Finish("forecast", Step7(env), "fcf")
    /\ UNCHANGED <<decisions, quote_calls, fn, args, ret>>

\* STEP 8.  Free cash flow, kept from the last historical year on, and the
\* compounded discount factors.
Step8(e) ==
    LET fcf_forecast_arr ==
            array_arithmetic(
                array_arithmetic(
                    array_arithmetic(e.nopat_forecast_arr,
                                     array_arithmetic(e.depreciation_forecast_arr,
                                                      e.amortization_forecast_arr, Add),
                                     Add),
                    e.capex_forecast_arr, Sub),
                e.change_in_working_capital_forecast_arr, Sub)
        wacc_constant_arr == Arr([i \in 1..N_FORECAST_YEARS |-> WACC])
    IN  IF IsNone(fcf_forecast_arr) THEN SysExit
        ELSE Ok([fcf_forecast_arr |->
                     Arr(SubSeq(fcf_forecast_arr.data, N_HISTORICAL_YEARS,
                                Len(fcf_forecast_arr.data))),
                 wacc_constant_arr |-> wacc_constant_arr,
                 wacc_arr |-> apply_growth(PyFloat(One), wacc_constant_arr)])

Step8_FCF ==
    /\ pc = "fcf"
    /\ Finish("fcf", Step8(env), "pv")
    /\ UNCHANGED <<decisions, quote_calls, fn, args, ret>>

\* A variant that discounts the terminal value over one year less.
TerminalDiscount_OneYearLess == FPow(FAdd(One, WACC), N_FORECAST_YEARS - 1)

\* (1+WACC)**N_FORECAST_YEARS
TerminalDiscount == FPow(FAdd(One, WACC), N_FORECAST_YEARS)

\* STEP 9.  Present value of the free cash flows and of the terminal value.
Step9(e) ==
    LET pv_forecasted_fcf_arr == array_arithmetic(e.fcf_forecast_arr, e.wacc_arr, Div)
        terminal_value ==
            FDiv(FMul(LastOf(e.fcf_forecast_arr), FAdd(One, TERMINAL_GROWTH_RATE)),
                 FSub(WACC, TERMINAL_GROWTH_RATE))
    IN  IF IsNone(pv_forecasted_fcf_arr) THEN SysExit
        ELSE Ok([pv_forecasted_fcf_arr |-> pv_forecasted_fcf_arr,
                 pv_forecasted_fcf_sum |-> ArrSum(pv_forecasted_fcf_arr.data),
                 terminal_value |-> terminal_value,
                 pv_terminal_value |->
                     FDiv(terminal_value, TerminalDiscount)])

Step9_PresentValue ==
    /\ pc = "pv"
    /\ Finish("pv", Step9(env), "enterprise")
    /\ UNCHANGED <<decisions, quote_calls, fn, args, ret>>

\* A variant that deducts the terminal value.
Step10_LessTerminalValue(e) ==
    Ok([enterprise_value |-> FSub(e.pv_forecasted_fcf_sum, e.pv_terminal_value)])

\* STEP 10.  Enterprise value.
Step10(e) ==
    Ok([enterprise_value |-> FAdd(e.pv_forecasted_fcf_sum, e.pv_terminal_value)])

Step10_EnterpriseValue ==
    /\ pc = "enterprise"
    /\ Finish("enterprise", Step10(env), "equity")
    /\ UNCHANGED <<decisions, quote_calls, fn, args, ret>>

\* STEP 11.  Equity value and value per share from the last historical
\* balance-sheet figures; subscripting a series that is None raises.
Step11(e) ==
    LET closing == <<e.total_debt_arr, e.preferred_equity_arr,
                     e.minority_interest_arr, e.cash_and_equivalents_arr>>
        equity_value ==
            FAdd(FSub(FSub(FSub(e.enterprise_value, LastOf(closing[1])),
                           LastOf(closing[2])),
                      LastOf(closing[3])),
                 LastOf(closing[4]))
    IN  IF \E i \in 1..4 : IsNone(closing[i]) THEN Uncaught("TypeError")
        ELSE IF IsNone(e.shares_out_arr) THEN Uncaught("TypeError")
        ELSE Ok([equity_value |-> equity_value,
                 share_value |-> FDiv(equity_value, LastOf(e.shares_out_arr))])

Step11_EquityValue ==
    /\ pc = "equity"
    /\ Finish("equity", Step11(env), "price")
    /\ UNCHANGED <<decisions, quote_calls, fn, args, ret>>

\* The price check: one call of the quote source.
PriceCheck ==
    /\ pc = "price"
    /\ \E price \in Prices : Finish("price", Ok([price |-> price]), "decision")
    /\ quote_calls' = quote_calls + 1
    /\ UNCHANGED <<decisions, fn, args, ret>>

\* A variant whose first comparison is <= in place of <.
Decide_SellAtThreshold(share_value, price) ==
    IF FLe(share_value, FMul(FSub(One, BUY_SELL_THRESHOLD), price)) THEN "SELL"
    ELSE IF FLt(share_value, FMul(FAdd(One, BUY_SELL_THRESHOLD), price)) THEN "BUY"
    ELSE "HOLD"

\* The two comparisons of STEP 12 in the order of the code.
Decide(share_value, price) ==
    IF FLt(share_value, FMul(FSub(One, BUY_SELL_THRESHOLD), price)) THEN "SELL"
    ELSE IF FLt(share_value, FMul(FAdd(One, BUY_SELL_THRESHOLD), price)) THEN "BUY"
    ELSE "HOLD"

\* STEP 12.  A price of None makes the first comparison raise.  SELL and BUY
\* are followed by sys.exit(); HOLD by the end of the script.
Step12_Decision ==
    /\ pc = "decision"
    /\ IF IsNone(env.price)
       THEN /\ Finish("decision", Uncaught("TypeError"), "exited")
            /\ UNCHANGED decisions
       ELSE /\ decisions' = Append(decisions, Decide(env.share_value, env.price.v))
            /\ last' = "decision"
            /\ pc' = "exited"
            /\ exit_code' = 0
            /\ exc' = IF Decide(env.share_value, env.price.v) = "HOLD"
                      THEN "none" ELSE "SystemExit"
            /\ UNCHANGED env
    /\ UNCHANGED <<quote_calls, fn, args, ret>>

RunNext ==
    \/ Step1_Import
    \/ Step2_Window
    \/ Step3_Extract
    \/ Step4_Check
    \/ Step5_Margins
    \/ Step6_Projections
    \/ Step7_Forecast
    \/ Step8_FCF
    \/ Step9_PresentValue
    \/ Step10_EnterpriseValue
    \/ Step11_EquityValue
    \/ PriceCheck
    \/ Step12_Decision

RunStart ==
    /\ fn = "idle"
    /\ args = PyNone
    /\ ret = PyNone
    /\ RunInit

SpecRun == RunStart /\ [][RunNext]_vars

\* ------------------------------------------- calls of the core operations

\* Element values of the arrays: the missing-value sentinel, a zero, and
\* values whose quotients need rounding.
ArrVals == {NaN, Zero, One, F(-3, 1)}

SeqsUpTo(S, n) == UNION {[1..k -> S] : k \in 0..n}

\* What a caller may hand over as an array: 1-D arrays (the empty one
\* included), a 2-D array, a list that is not an ndarray, and None.
Operands ==
    {Arr(d) : d \in SeqsUpTo(ArrVals, MaxLen)}
        \cup {NdArray(<<1, 1>>, <<One>>), PyList(<<One>>), PyNone}

\* Operation arguments: names of the synonym table in several cases, an
\* unknown name, the empty string, a non-string and None.
Operations ==
    {PyStr(s) : s \in {"add", "Plus", "-", "TIMES", "multiply", "divide", "DIV",
                        "/", "power", ""}}
        \cup {PyInt(5), PyNone}

\* Start, end and step values: Python floats or None.
GlideVals == {NaN, Zero, One, F(3, 1), F(-1, 8)}

OptFloats == {PyFloat(v) : v \in GlideVals} \cup {PyNone}

Methods == {PyNone, PyStr("average"), PyStr("last"), PyStr("median")}

Steps == {PyNone, PyFloat(F(1, 2))}

InitialValues == {PyFloat(One), PyFloat(F(-3, 1)), PyInt(2), PyStr("100"), PyNone}

FirstValues == {PyNone, PyFloat(Zero), PyFloat(One)}

LibInit ==
    /\ fn = "idle"
    /\ args = PyNone
    /\ ret = PyNone
    /\ RunInit

CallArrayArithmetic ==
    /\ fn = "idle"
    /\ \E arr1 \in Operands, arr2 \in Operands, operation \in Operations :
          /\ fn' = "array_arithmetic"
          /\ args' = [arr1 |-> arr1, arr2 |-> arr2, operation |-> operation]
          /\ ret' = array_arithmetic(arr1, arr2, operation)
    /\ UNCHANGED runvars

CallExtendArray ==
    /\ fn = "idle"
    /\ \E arr \in Operands, forecast_periods \in -1..MaxHorizon, method \in Methods,
          STEP \in Steps, START_VALUE \in OptFloats, END_VALUE \in OptFloats :
          /\ fn' = "extend_array"
          /\ args' = [arr |-> arr, forecast_periods |-> forecast_periods,
                      method |-> method, STEP |-> STEP,
                      START_VALUE |-> START_VALUE, END_VALUE |-> END_VALUE]
          /\ ret' = extend_array(arr, forecast_periods, method, STEP,
                                 START_VALUE, END_VALUE)
    /\ UNCHANGED runvars

CallApplyGrowth ==
    /\ fn = "idle"
    /\ \E initial_value \in InitialValues, growth_rates \in Operands :
          /\ fn' = "apply_growth"
          /\ args' = [initial_value |-> initial_value, growth_rates |-> growth_rates]
          /\ ret' = apply_growth(initial_value, growth_rates)
    /\ UNCHANGED runvars

CallDeltaNumpy ==
    /\ fn = "idle"
    /\ \E array \in Operands, first_value \in FirstValues :
          /\ fn' = "delta_numpy"
          /\ args' = [array |-> array, first_value |-> first_value]
          /\ ret' = delta_numpy(array, first_value)
    /\ UNCHANGED runvars

\* What a series of the historical window can hold: one value per period,
\* the missing-value sentinel included.
HistoricalSeries == {Arr(d) : d \in SeqsUpTo(ArrVals, MaxLen) \ {<<>>}}

\* The gross profit check of STEP 4 (lines 284-292): the reconstruction, its
\* test for None, and the comparison with the reported series.
GrossProfitCheck(sales_arr, cogs_arr, gp_arr) ==
    IF IsNone(array_arithmetic(sales_arr, cogs_arr, Sub)) THEN SysExit
    ELSE AllClose(gp_arr, array_arithmetic(sales_arr, cogs_arr, Sub))

\* The gross profit check on a sales and a cogs series of the same periods,
\* with a reported gross profit that is sales - cogs element by element.
CallCheckGrossMargin ==
    /\ fn = "idle"
    /\ \E sales_arr \in HistoricalSeries, cogs_arr \in HistoricalSeries :
          /\ Len(sales_arr.data) = Len(cogs_arr.data)
          /\ fn' = "check_gross_margin"
          /\ args' = [sales_arr |-> sales_arr, cogs_arr |-> cogs_arr,
                      gp_arr |-> Arr([i \in 1..Len(sales_arr.data) |->
                                        FSub(sales_arr.data[i], cogs_arr.data[i])])]
          /\ ret' = GrossProfitCheck(sales_arr, cogs_arr,
                                     Arr([i \in 1..Len(sales_arr.data) |->
                                            FSub(sales_arr.data[i], cogs_arr.data[i])]))
    /\ UNCHANGED runvars

LibNext ==
    \/ CallArrayArithmetic
    \/ CallExtendArray
    \/ CallApplyGrowth
    \/ CallDeltaNumpy
    \/ CallCheckGrossMargin

Spec == LibInit /\ [][LibNext]_vars

\* ------------------------------------------------- claims: array_arithmetic

Is1D(v) == IsNdArray(v) /\ Len(v.shape) = 1

\* A call of array_arithmetic on two 1-D arrays of the same length.
EqualLengthCall ==
    /\ fn = "array_arithmetic"
    /\ Is1D(args.arr1) /\ Is1D(args.arr2)
    /\ Len(args.arr1.data) = Len(args.arr2.data)

\* The result is a 1-D array as long as the operands.
SameLengthResult == Is1D(ret) /\ Len(ret.data) = Len(args.arr1.data)

C2_AddSubtractMultiply ==
    /\ (EqualLengthCall /\ args.operation \in {PyStr("add"), PyStr("Plus")})
          => /\ SameLengthResult
             /\ \A i \in 1..Len(ret.data) :
                   ret.data[i] = FAdd(args.arr1.data[i], args.arr2.data[i])
    /\ (EqualLengthCall /\ args.operation = PyStr("-"))
          => /\ SameLengthResult
             /\ \A i \in 1..Len(ret.data) :
                   ret.data[i] = FSub(args.arr1.data[i], args.arr2.data[i])
    /\ (EqualLengthCall /\ args.operation \in {PyStr("multiply"), PyStr("TIMES")})
          => /\ SameLengthResult
             /\ \A i \in 1..Len(ret.data) :
                   ret.data[i] = FMul(args.arr1.data[i], args.arr2.data[i])

\* A product of two sequences of length MaxLen that is not their sum.
C2_Witness ==
    /\ EqualLengthCall
    /\ args.operation = PyStr("multiply")
    /\ Len(args.arr1.data) = MaxLen
    /\ Is1D(ret)
    /\ ret.data[1] = F(9, 1)
    /\ ret.data[1] # FAdd(args.arr1.data[1], args.arr2.data[1])

\* C3: whatever the operation name, two sequences of different lengths give
\* the failure value: nothing is broadcast, truncated or padded (a sequence
\* of one element against a longer one included).
C3_LengthMismatchFails ==
    (/\ fn = "array_arithmetic"
     /\ Is1D(args.arr1) /\ Is1D(args.arr2)
     /\ Len(args.arr1.data) # Len(args.arr2.data))
    => ret = PyNone

\* A sequence of one element against a longer one, under a known operation.
C3_Witness ==
    /\ fn = "array_arithmetic"
    /\ args.operation = PyStr("add")
    /\ Is1D(args.arr1) /\ Is1D(args.arr2)
    /\ Len(args.arr1.data) = 1
    /\ Len(args.arr2.data) = MaxLen
    /\ ret = PyNone

\* The one cause for which a call of array_arithmetic fails, "none" when it
\* has none or more than one.
SoleCause(a) ==
    LET badop == BadOperation(a.operation) \/ Lower(a.operation.s) \notin OP_SET
        null  == IsNone(a.arr1) \/ IsNone(a.arr2)
        shape == IsNdArray(a.arr1) /\ IsNdArray(a.arr2) /\ a.arr1.shape # a.arr2.shape
        valid == IsNdArray(a.arr1) /\ IsNdArray(a.arr2) /\ a.arr1.shape = a.arr2.shape
    IN  IF badop /\ valid THEN "operation"
        ELSE IF null /\ ~badop /\ (IsNone(a.arr1) \/ IsNdArray(a.arr1))
                /\ (IsNone(a.arr2) \/ IsNdArray(a.arr2)) THEN "null operand"
        ELSE IF shape /\ ~badop THEN "shape mismatch"
        ELSE "none"

\* C4: an unknown operation, a null operand and a shape mismatch each yield
\* a distinct failure: the value returned for one cause is returned for no
\* call failing for another cause.
C4_DistinctFailures ==
    (fn = "array_arithmetic" /\ SoleCause(args) # "none")
    => \A arr1 \in Operands, arr2 \in Operands, operation \in Operations :
          LET other == [arr1 |-> arr1, arr2 |-> arr2, operation |-> operation]
          IN  SoleCause(other) \notin {"none", SoleCause(args)}
                 => array_arithmetic(arr1, arr2, operation) # ret

\* ----------------------------------------------------- claims: extend_array

\* A call of extend_array on a 1-D history with a supported method (or
\* none) and a horizon of at least h0.
ValidExtendCall(h0) ==
    /\ fn = "extend_array"
    /\ Is1D(args.arr)
    /\ args.method \in {PyNone, PyStr("average"), PyStr("last")}
    /\ args.forecast_periods >= h0

\* Glide mode: start and end value are both given.
GlideMode == ~IsNone(args.START_VALUE) /\ ~IsNone(args.END_VALUE)

\* C5: in glide mode with horizon h >= 1 and start and end values S and E,
\* the result has length n+h, its last element equals E, its element n+h-1
\* minus its element n (0-based) equals (E-S)*(h-1)/h, and its first
\* forecast element is S + (E-S)/h, not S.
C5_GlideEndsAtEndValue ==
    (/\ ValidExtendCall(1)
     /\ GlideMode
     /\ IsFin(args.START_VALUE.v) /\ IsFin(args.END_VALUE.v))
    => LET n == Len(args.arr.data)
           h == args.forecast_periods
           S == args.START_VALUE.v
           E == args.END_VALUE.v
       IN  /\ Is1D(ret)
           /\ Len(ret.data) = n + h
           /\ ret.data[n + h] = E
           /\ FSub(ret.data[n + h], ret.data[n + 1])
                 = FDiv(FMul(FSub(E, S), FromInt(h - 1)), FromInt(h))
           /\ ret.data[n + 1] = FAdd(S, FDiv(FSub(E, S), FromInt(h)))

\* C6: for every 1-D history and every horizon >= 0, in glide mode and in
\* base+step mode, the result has length len(history) + horizon; with
\* horizon 0 it is the history itself.
C6_LengthIsHistoryPlusHorizon ==
    ValidExtendCall(0)
    => /\ Is1D(ret)
       /\ Len(ret.data) = Len(args.arr.data) + args.forecast_periods
       /\ args.forecast_periods = 0 => ret = args.arr

\* C7: every core operation returns a result or the failure value for
\* every input, invalid ones included; none raises an exception.
C7_NoCoreOperationRaises == fn # "idle" => ~IsRaise(ret)

\* ---------------------------------------------------------- claims: dcf.py

\* The run reached its last statement group with a numeric share value and
\* a price that is a float.
Decided == pc = "exited" /\ last = "decision" /\ exc # "TypeError"

SellThreshold == FMul(FSub(One, BUY_SELL_THRESHOLD), env.price.v)

BuyThreshold == FMul(FAdd(One, BUY_SELL_THRESHOLD), env.price.v)

\* C8: a run that reaches the decision with share value V and price P logs
\* exactly one decision: SELL iff V < (1-T)*P, otherwise BUY iff V < (1+T)*P,
\* otherwise HOLD.  V == (1-T)*P gives BUY, V == (1+T)*P gives HOLD, and no
\* run logs a decision before that point or more than one.
C8_DecisionThresholds ==
    /\ Len(decisions) <= 1
    /\ decisions # <<>> => Decided
    /\ Decided =>
          LET V    == env.share_value
              sell == FLt(V, SellThreshold)
              buy  == FLt(V, BuyThreshold)
          IN  /\ Len(decisions) = 1
              /\ decisions[1] \in {"SELL", "BUY", "HOLD"}
              /\ decisions[1] = "SELL" <=> sell
              /\ decisions[1] = "BUY" <=> ~sell /\ buy
              /\ decisions[1] = "HOLD" <=> ~sell /\ ~buy
              /\ FEq(V, SellThreshold) => decisions[1] = "BUY"
              /\ FEq(V, BuyThreshold) => decisions[1] = "HOLD"

\* A run decided with the share value exactly on the SELL/BUY threshold.
C8_Witness ==
    /\ Decided
    /\ FEq(env.share_value, SellThreshold)
    /\ decisions = <<"BUY">>

\* The run was stopped by one of the script's own validation exits.
ValidationStop == pc = "exited" /\ exc = "SystemExit" /\ decisions = <<>>

\* C9: a run stopped early by a validation failure ends with a non-zero exit
\* status, and exit status 0 is produced only by a run that completed the
\* valuation and logged its decision.
C9_ExitCodeDistinguishesOutcomes ==
    /\ ValidationStop => exit_code # 0
    /\ pc = "exited" /\ exit_code = 0 => Len(decisions) = 1

\* The columns the loaded table lacks (DATE is dropped by STEP 2 itself).
MissingColumns ==
    IF "dcf_actuals" \in DOMAIN env
    THEN (ALL_VARS \ {DATES_VAR}) \ env.dcf_actuals.columns
    ELSE IF "dcf_df" \in DOMAIN env THEN ALL_VARS \ env.dcf_df.columns
    ELSE {}

\* The columns whose series a later statement reads: every column but
\* CAPITAL_EXPEND, which STEP 3 extracts into a variable nothing reads.
REQUIRED_VARS == ALL_VARS \ {CAPEX_VAR}

\* The script variables that hold a series and are read after assignment.
RequiredSeries == DOMAIN env \ {"dcf_df", "dcf_actuals", "capital_expenditure_arr", "price"}

\* A required series is unavailable: a required column is missing, the
\* historical window holds no row, or a series the script computed is None.
RequiredSeriesUnavailable ==
    \/ MissingColumns \cap REQUIRED_VARS # {}
    \/ "dcf_actuals" \in DOMAIN env /\ Len(env.dcf_actuals.rows) = 0
    \/ \E v \in RequiredSeries : "ty" \in DOMAIN env[v] /\ IsNone(env[v])

EarlyStages == {"none", "import", "window", "extract"}

\* C11: when a column whose series the valuation reads is missing from the
\* table, the run ends at the extraction stage at the latest: no consistency
\* check, margin, projection, forecast or discounting stage executes.
C11_MissingColumnStopsAtExtraction ==
    MissingColumns \cap REQUIRED_VARS # {} => last \in EarlyStages

\* The booleans of the five consistency checks.
CHECKS ==
    {"check_gross_margin_arr", "check_oper_exp_arr", "check_oper_inc_arr",
     "check_effective_tax_rate_arr", "check_depreciation_arr"}

ChecksDone == CHECKS \subseteq DOMAIN env

FailedChecks == {c \in CHECKS : ~env[c].v}

\* The series the five checks read.
CHECK_INPUTS ==
    {"sales_arr", "cogs_arr", "gp_arr", "sga_exp_arr", "rd_exp_arr",
     "other_oper_exp_arr", "oper_exp_arr", "other_oper_inc_arr", "oper_inc_arr",
     "tax_exp_arr", "pretax_inc_arr", "effective_tax_rate_arr", "ebitda_arr",
     "ebita_arr", "depreciation_arr"}

\* C12: when the check stage has every series it reads, it is followed by
\* margin building whatever the five checks found, and a run on a table with
\* every required column and a full window ends where the run with five
\* passing checks ends: at the decision.
C12_ChecksNeverAffectControlFlow ==
    /\ (last = "check" /\ \A v \in CHECK_INPUTS : ~IsNone(env[v]))
          => ChecksDone /\ pc = "margins" /\ exit_code = -1
    /\ (/\ pc = "exited"
        /\ "dcf_actuals" \in DOMAIN env
        /\ MissingColumns \cap REQUIRED_VARS = {}
        /\ Len(env.dcf_actuals.rows) = N_HISTORICAL_YEARS)
          => last = "decision"

\* A run in which all five checks failed reached the decision.
C12_Witness ==
    /\ ChecksDone
    /\ FailedChecks = CHECKS
    /\ pc = "exited"
    /\ last = "decision"
    /\ Len(decisions) = 1

\* C13: when the reported gross profit is sales - cogs element by element,
\* the gross profit check reports a pass, for every sales and cogs series,
\* series holding the missing-value sentinel included.
C13_ExactGrossProfitPasses ==
    fn = "check_gross_margin" => ret = [ty |-> "bool", v |-> TRUE]

\* C14: the forecast sales path has length history + horizon, holds the
\* last historical sales value at the last historical position, and k
\* periods later holds that value times the product of (1 + g_j), j = 1..k,
\* over the glide values of the extended sales growth.
C14_SalesCompoundedFromLastActual ==
    "sales_forecast_arr" \in DOMAIN env
    => LET n == Len(env.sales_arr.data)
           f == env.sales_forecast_arr.data
           last_actual == env.sales_arr.data[n]
           glide == SubSeq(env.sales_growth_arr_extended.data,
                           n + 1, n + N_FORECAST_YEARS)
       IN  /\ Len(f) = n + N_FORECAST_YEARS
           /\ f[n] = last_actual
           /\ \A k \in 1..N_FORECAST_YEARS :
                  f[n + k] = FMul(last_actual, Multipliers(glide)[k])

\* Free cash flow of period i of the forecast statements (counted from 1),
\* from the forecast lines: NOPAT + depreciation + amortization - capex
\* - change in working capital.
FcfOfPeriod(i) ==
    FSub(FSub(FAdd(env.nopat_forecast_arr.data[i],
                   FAdd(env.depreciation_forecast_arr.data[i],
                        env.amortization_forecast_arr.data[i])),
              env.capex_forecast_arr.data[i]),
         env.change_in_working_capital_forecast_arr.data[i])

\* C15: after slicing, the free cash flow series has horizon + 1 elements
\* and begins with the free cash flow of the most recent historical period,
\* whatever the number of rows the window holds.
C15_FcfKeepsCurrentYearAndHorizon ==
    "fcf_forecast_arr" \in DOMAIN env
    => /\ Len(env.fcf_forecast_arr.data) = N_FORECAST_YEARS + 1
       /\ env.fcf_forecast_arr.data[1] = FcfOfPeriod(Len(env.sales_arr.data))

\* C16: the change in working capital that enters free cash flow is 0.0 at
\* the first forecast period (the first period after the history, or the
\* first period the sliced free cash flow keeps), and WC[i] - WC[i-1] at
\* every later period.
C16_ZeroAnchorAtFirstForecastPeriod ==
    "change_in_working_capital_forecast_arr" \in DOMAIN env
    => LET n == Len(env.sales_arr.data)
           delta == env.change_in_working_capital_forecast_arr.data
           wc == env.working_capital_forecast_arr.data
       IN  /\ delta[n + 1] = Zero \/ delta[N_HISTORICAL_YEARS] = Zero
           /\ \A i \in (n + 2)..Len(delta) : delta[i] = FSub(wc[i], wc[i - 1])

FPositive(x) == FLt(Zero, x)

\* Every free cash flow the slice kept is positive.
PositiveFcf ==
    \A i \in 1..Len(env.fcf_forecast_arr.data) :
        FPositive(env.fcf_forecast_arr.data[i])

\* C17: the enterprise value is the sum of the present values of the free
\* cash flows plus FCF_last * (1 + g) / (WACC - g) / (1 + WACC)^horizon, and
\* it is strictly positive whenever every retained free cash flow is
\* positive and WACC exceeds the terminal growth rate g.
C17_EnterpriseValuePositive ==
    "enterprise_value" \in DOMAIN env
    => /\ env.enterprise_value =
              FAdd(ArrSum(env.pv_forecasted_fcf_arr.data),
                   FDiv(FDiv(FMul(LastOf(env.fcf_forecast_arr),
                                  FAdd(One, TERMINAL_GROWTH_RATE)),
                             FSub(WACC, TERMINAL_GROWTH_RATE)),
                        FPow(FAdd(One, WACC), N_FORECAST_YEARS)))
       /\ PositiveFcf /\ FLt(TERMINAL_GROWTH_RATE, WACC)
              => FPositive(env.enterprise_value)

\* A valuation with positive free cash flows reached its enterprise value.
C17_Witness ==
    /\ "enterprise_value" \in DOMAIN env
    /\ last = "enterprise"
    /\ PositiveFcf
    /\ FLt(TERMINAL_GROWTH_RATE, WACC)
    /\ FPositive(env.enterprise_value)

\* ---------------------------------------------------- claims: apply_growth

\* v0 * (1 + r1) * ... * (1 + rk): the product of the factors taken left to
\* right, then scaled by v0.
RECURSIVE GrowthFactor(_, _)
GrowthFactor(r, k) ==
    IF k = 1 THEN FAdd(One, r[1])
    ELSE FMul(GrowthFactor(r, k - 1), FAdd(One, r[k]))

\* The initial value as a float, when it is numeric.
InitialFloat ==
    IF args.initial_value.ty = "int" THEN FromInt(args.initial_value.i)
    ELSE args.initial_value.v

\* A call of apply_growth with a numeric initial value and a non-empty array
\* of growth rates.
ValidGrowthCall ==
    /\ fn = "apply_growth"
    /\ args.initial_value.ty \in {"int", "float"}
    /\ IsNdArray(args.growth_rates)
    /\ Len(args.growth_rates.data) > 0

\* C18: for a numeric initial value v0 and non-empty growth rates r1..rn,
\* apply_growth returns n + 1 elements, the first v0 and the one k places
\* later v0 * (1 + r1) * ... * (1 + rk); for empty growth rates, growth
\* rates that are not an array, or a non-numeric initial value it returns
\* None.
C18_ApplyGrowthCompounds ==
    fn = "apply_growth"
    => IF ValidGrowthCall
       THEN LET r == args.growth_rates.data
            IN  /\ Is1D(ret)
                /\ Len(ret.data) = Len(r) + 1
                /\ ret.data[1] = InitialFloat
                /\ \A k \in 1..Len(r) :
                       ret.data[k + 1] = FMul(InitialFloat, GrowthFactor(r, k))
       ELSE IsNone(ret)

\* Two growth rates compounded from an initial value other than 1.
C18_Witness ==
    /\ ValidGrowthCall
    /\ Len(args.growth_rates.data) = 2
    /\ IsFin(args.growth_rates.data[1]) /\ ~IsZero(args.growth_rates.data[1])
    /\ IsFin(args.growth_rates.data[2]) /\ ~IsZero(args.growth_rates.data[2])
    /\ InitialFloat # One
    /\ Is1D(ret) /\ Len(ret.data) = 3

\* ----------------------------------------------------- claims: delta_numpy

\* A call of delta_numpy on a non-empty 1-D array.
ValidDeltaCall ==
    /\ fn = "delta_numpy"
    /\ Is1D(args.array)
    /\ Len(args.array.data) > 0

BaseStepCall ==
    /\ fn = "extend_array"
    /\ Is1D(args.arr)
    /\ args.method \in {PyStr("average"), PyStr("last")}
    /\ args.forecast_periods >= 0
    /\ ~GlideMode
    /\ args.method = PyStr("last") => Len(args.arr.data) > 0

\* C20: in base+step mode extend_array returns the unchanged history
\* followed by base + k * step, k = 1..horizon, where base is the mean of
\* the history (over the periods that are not missing) for method average
\* and the last historical value for method last, and step is 0 when none
\* is given, which makes the forecast constant and equal to base.
C20_BaseStepForecast ==
    BaseStepCall
    => LET a == args.arr.data
           n == Len(a)
           h == args.forecast_periods
           base == IF args.method = PyStr("average") THEN NanMean(a) ELSE a[n]
           step == IF IsNone(args.STEP) THEN Zero ELSE args.STEP.v
       IN  /\ Is1D(ret)
           /\ Len(ret.data) = n + h
           /\ SubSeq(ret.data, 1, n) = a
           /\ \A k \in 1..h : ret.data[n + k] = FAdd(base, FMul(FromInt(k), step))
           /\ IsNone(args.STEP) => \A k \in 1..h : ret.data[n + k] = base
           /\ (args.method = PyStr("average") /\ n > 0 /\ \A i \in 1..n : ~IsNaN(a[i]))
                  => base = FDiv(ArrSum(a), FromInt(n))

\* A history of two different values extended by its mean and a step.
C20_Witness ==
    /\ BaseStepCall
    /\ args.method = PyStr("average")
    /\ ~IsNone(args.STEP)
    /\ args.forecast_periods >= 2
    /\ Len(args.arr.data) = 2
    /\ IsFin(args.arr.data[1]) /\ IsFin(args.arr.data[2])
    /\ args.arr.data[1] # args.arr.data[2]
    /\ Is1D(ret)
    /\ ret.data[4] = FAdd(NanMean(args.arr.data), FMul(FromInt(2), args.STEP.v))

\* A call of extend_array with an input that is not an array, an array
\* that is not 1-dimensional, a negative horizon, or a method that is given
\* and is neither average nor last.
InvalidExtendCall ==
    /\ fn = "extend_array"
    /\ \/ ~IsNdArray(args.arr)
       \/ ~Is1D(args.arr)
       \/ args.forecast_periods < 0
       \/ args.method \notin {PyNone, PyStr("average"), PyStr("last")}

\* C21: extend_array returns None, and no forecast element, for an input
\* that is not an array, an array that is not 1-dimensional, a negative
\* horizon and an unsupported method, in glide mode and in base+step mode.
C21_InvalidExtendCallFails == InvalidExtendCall => IsNone(ret)

\* A negative horizon in glide mode, everything else valid.
C21_Witness ==
    /\ InvalidExtendCall
    /\ GlideMode
    /\ Is1D(args.arr)
    /\ args.method = PyStr("last")
    /\ args.forecast_periods < 0
    /\ IsNone(ret)

\* C22: in glide mode with horizon h >= 1 and start and end values S and
\* E, consecutive forecast elements all differ by the step (E - S) / h, the
\* forecast is non-decreasing when E >= S and non-increasing when E <= S,
\* and every forecast element lies between S and E, both included.
C22_GlideMonotoneAndBounded ==
    (/\ ValidExtendCall(1)
     /\ GlideMode
     /\ IsFin(args.START_VALUE.v) /\ IsFin(args.END_VALUE.v))
    => LET n == Len(args.arr.data)
           h == args.forecast_periods
           S == args.START_VALUE.v
           E == args.END_VALUE.v
       IN  /\ Is1D(ret)
           /\ \A k \in 1..(h - 1) :
                  /\ FSub(ret.data[n + k + 1], ret.data[n + k])
                        = FDiv(FSub(E, S), FromInt(h))
                  /\ FLe(S, E) => FLe(ret.data[n + k], ret.data[n + k + 1])
                  /\ FLe(E, S) => FLe(ret.data[n + k + 1], ret.data[n + k])
           /\ \A k \in 1..h :
                  /\ FLe(PyMin(S, E), ret.data[n + k])
                  /\ FLe(ret.data[n + k], PyMax(S, E))

\* ---------------------------------------------------------- claims: dcf.py

\* C23: the extended effective tax rate is the recomputed series (tax
\* expense / pretax income) followed by a forecast that is constant at its
\* last value, and NOPAT at every period is EBIT * (1 - that extended rate),
\* whether or not the effective-tax-rate check passed.
C23_RecomputedTaxRateCarriedForward ==
    "nopat_forecast_arr" \in DOMAIN env
    => LET recomputed == env.calculated_effective_tax_rate_arr.data
           extended == env.effective_tax_rate_arr_extended.data
           n == Len(recomputed)
       IN  /\ Len(extended) = n + N_FORECAST_YEARS
           /\ SubSeq(extended, 1, n) = recomputed
           /\ \A k \in 1..N_FORECAST_YEARS : extended[n + k] = recomputed[n]
           /\ Len(env.nopat_forecast_arr.data) = Len(extended)
           /\ \A i \in 1..Len(extended) :
                  env.nopat_forecast_arr.data[i]
                      = FMul(env.ebit_forecast_arr.data[i], FSub(One, extended[i]))

\* A run whose effective-tax-rate check failed computed NOPAT.
C23_Witness ==
    /\ "nopat_forecast_arr" \in DOMAIN env
    /\ last = "forecast"
    /\ ~env.check_effective_tax_rate_arr.v
    /\ LastOf(env.effective_tax_rate_arr) # LastOf(env.calculated_effective_tax_rate_arr)
    /\ LastOf(env.effective_tax_rate_arr_extended)
           = LastOf(env.calculated_effective_tax_rate_arr)

\* ------------------------------------------------ claims: core operations

SentinelReachedValuation ==
    /\ pc = "exited"
    /\ "price" \in DOMAIN env
    /\ \/ \E i \in 1..Len(env.fcf_forecast_arr.data) :
              IsNaN(env.fcf_forecast_arr.data[i])
       \/ IsNaN(env.share_value)
       \/ env.price = PyFloat(NaN)

\* C26: a run in which NaN is an element of the retained free cash flows, or
\* the value per share, or the fetched price, ends without an exception; its
\* sum of present values, enterprise value and value per share are NaN, both
\* comparisons of the decision are false, and it logs HOLD.
C26_SentinelEndsInHold ==
    SentinelReachedValuation
    => /\ exc = "none"
       /\ IsNaN(env.pv_forecasted_fcf_sum)
       /\ IsNaN(env.enterprise_value)
       /\ IsNaN(env.share_value)
       /\ ~IsNone(env.price)
       /\ ~FLt(env.share_value, SellThreshold)
       /\ ~FLt(env.share_value, BuyThreshold)
       /\ decisions = <<"HOLD">>

\* ------------------------------------------- claims: modes of extend_array

\* The methods extend_array accepts.
VALID_METHODS == {PyNone, PyStr("average"), PyStr("last")}

\* C27: in a call of extend_array with a valid method, a start value or an
\* end value given alone is ignored: the result (array, None or exception) is
\* that of the same call with neither.  When both are given the result is
\* the same whatever the valid method and whatever the step argument.
C27_ModeSelectedByStartAndEnd ==
    (fn = "extend_array" /\ args.method \in VALID_METHODS)
    => /\ IsNone(args.START_VALUE) # IsNone(args.END_VALUE)
          => ret = extend_array(args.arr, args.forecast_periods, args.method,
                                args.STEP, PyNone, PyNone)
       /\ GlideMode
          => \A method \in VALID_METHODS, STEP \in Steps :
                 ret = extend_array(args.arr, args.forecast_periods, method,
                                    STEP, args.START_VALUE, args.END_VALUE)

\* A start value given alone, with a history whose mean is another value:
\* the forecast starts from the mean plus the step, not from the start value.
C27_Witness ==
    /\ ValidExtendCall(1)
    /\ args.method = PyStr("average")
    /\ ~IsNone(args.START_VALUE) /\ IsNone(args.END_VALUE)
    /\ ~IsNone(args.STEP)
    /\ Is1D(ret)
    /\ Len(args.arr.data) > 0
    /\ IsFin(NanMean(args.arr.data))
    /\ NanMean(args.arr.data) # args.START_VALUE.v
    /\ ret.data[Len(args.arr.data) + 1] = FAdd(NanMean(args.arr.data), args.STEP.v)
    /\ ret.data[Len(args.arr.data) + 1] # FAdd(args.START_VALUE.v, args.STEP.v)

====
